---- MODULE Spec2Model ----
(***************************************************************************)
(* FilesStorage (openprocurement.storage.files.storage): a content-        *)
(* addressed file store.  The store directory is shared by independent     *)
(* service processes; every filesystem call of register / upload / get is  *)
(* one step of the process that makes it.                                  *)
(***************************************************************************)
EXTENDS Integers, Sequences, FiniteSets, TLC

\* ------------------------------------------------------------------ bounds
\* Calls started in one behaviour of sequential calls (also the range of the clock).
MaxOps == 3
\* Calls started in one behaviour of concurrent processes.
MaxConc == 2
\* Length of files.replica_api explored (0 .. MaxReplicas replicas).
MaxReplicas == 1

\* upload_to_replicas(..., max_retry=10)
max_retry == 10

Procs == {1, 2}

\* ------------------------------------------------------------- the inputs
None == "None"
NoUuid == <<>>          \* upload(post_file, uuid=None)
NoName == <<>>          \* a record without the 'filename' key
\* What a blob file name holds: Absent, Empty, Partial, or the bytes of a content.
Absent == "Absent"      \* no file under that name
Empty == "Empty"        \* a file of 0 bytes (just created or truncated by open(.., 'w'))
Partial == "Partial"    \* a file holding some, not all, of the bytes written to it
\* What a .meta file name holds: MAbsent, MEmpty, or a record (a JSON object).
MAbsent == [file |-> "absent"]
MEmpty == [file |-> "empty"]

\* Byte contents a client may post: "content" (tests), and "" (the empty file).
Contents == {"content", ""}

\* hashlib.md5 of the whole stream, tagged "md5:".
compute_md5(c) ==
    CASE c = "content" -> "md5:9a0364b9e99bb480dd25e1f0284c8555"
      [] c = ""        -> "md5:d41d8cd98f00b204e9800998ecf8427e"
      [] OTHER         -> "md5:00000000000000000000000000000000"   \* other bytes

ZeroHash == "md5:00000000000000000000000000000000"
Digests == {compute_md5(c) : c \in Contents} \cup {ZeroHash}

\* self.forbidden_hash: the digest of the empty file.
forbidden_hash == {"md5:d41d8cd98f00b204e9800998ecf8427e"}
\* self.forbidden_ext (DANGEROUS_EXT), upper case; the members used here.
forbidden_ext == {"EXE", "JS"}
\* self.forbidden_mime (DANGEROUS_MIME_TYPES), lower case; the member used here.
forbidden_mime == {"application/x-dosexec"}

\* sha1(md5hash + ':uuid:' + secret_key): one-way and keyed, so injective here.
hash_to_uuid(md5hash) == <<"uuid", md5hash>>
\* sha1(uuid + ':file:' + secret_key)
uuid_to_file(uuid) == <<"file", uuid>>

Uuids == {hash_to_uuid(d) : d \in Digests}
Keys == {uuid_to_file(u) : u \in Uuids}

\* A file name is the sequence of its dot-separated parts: file.txt is <<"file","txt">>.
Filenames == {<<"file", "txt">>, <<"file2", "txt">>, <<"file", "exe">>,
              <<"file", "Exe", "txt">>}
ContentTypes == {"text/plain", "application/pdf"}

\* str.upper() on the extensions used here.
Upper(s) ==
    CASE s = "exe" -> "EXE" [] s = "Exe" -> "EXE" [] s = "js" -> "JS" [] s = "Js" -> "JS"
      [] s = "txt" -> "TXT" [] s = "zip" -> "ZIP" [] s = "Zip" -> "ZIP"
      [] OTHER -> s

\* The file names and declared types the content filter is given.
FilterNames ==
    {<<"file", "txt">>, <<"file", "exe">>, <<"file", "Exe", "txt">>, <<"file", "js">>,
     <<"file", "zip">>, <<"file", "Zip">>, <<"exe", "old", "txt">>, <<"exe">>}
FilterTypes ==
    {"text/plain", "application/zip", "application/x-dosexec", "Application/X-DosExec"}

\* Mutant of LastExts: only the last extension is looked at.
LastExts_LastOnly(filename) ==
    IF Len(filename) <= 1 THEN <<>> ELSE <<filename[Len(filename)]>>

\* filename.rsplit('.', 2)[1:]: the last two dot-separated parts, the head left out.
LastExts(filename) ==
    LET n == Len(filename)
    IN  IF n <= 1 THEN <<>>
        ELSE IF n = 2 THEN <<filename[2]>>
        ELSE <<filename[n - 1], filename[n]>>

\* str.lower() on the media types used here.
Lower(s) ==
    CASE s = "Application/X-DosExec" -> "application/x-dosexec"
      [] OTHER -> s

\* Byte contents the content filter is given beside those of Contents: the DOS
\* executable and the archive of the tests, archives by their member names, an
\* archive that libmagic does not sniff as a zip, and bytes that are no archive.
ExeBytes == "MZ: This program cannot be run in DOS mode"
ZipOfExe == "zip[file.exe]"
ZipOfTxt == "zip[file.txt]"
ZipOfJsTxt == "zip[file.Js.txt, file.txt]"
ZipOfNone == "zip[]"
OfficeZip == "docx[macro.js]"
BadZipFile == "Bad Zip File"
FilterContents ==
    {"content", ExeBytes, ZipOfExe, ZipOfTxt, ZipOfJsTxt, ZipOfNone, OfficeZip, BadZipFile}

\* Magic(mime=True).from_buffer(first 2048 bytes)
magic_type(c) ==
    CASE c = ExeBytes -> "application/x-dosexec"
      [] c \in {ZipOfExe, ZipOfTxt, ZipOfJsTxt, ZipOfNone} -> "application/zip"
      [] c = OfficeZip -> "application/octet-stream"
      [] c = "" -> "application/x-empty"
      [] OTHER -> "text/plain"

\* zipfile.ZipFile(fp).namelist(), or BadZip when the bytes are no archive.
BadZip == "BadZip"
namelist(c) ==
    CASE c = ZipOfExe -> << <<"file", "exe">> >>
      [] c = ZipOfTxt -> << <<"file", "txt">> >>
      [] c = ZipOfJsTxt -> << <<"file", "Js", "txt">>, <<"file", "txt">> >>
      [] c = ZipOfNone -> << >>
      [] c = OfficeZip -> << <<"macro", "js">> >>
      [] OTHER -> BadZip

HasForbiddenExt(filename) ==
    \E i \in DOMAIN LastExts(filename) : Upper(LastExts(filename)[i]) \in forbidden_ext

\* Mutant of TreatedAsZip: only the file name tells a zip.
TreatedAsZip_ByName(filename, content_type, mtype) ==
    Len(filename) > 1 /\ Upper(filename[Len(filename)]) = "ZIP"

\* Lines 111-112: filename.upper().endswith('.ZIP') or
\* 'application/zip' in (content_type, magic_type)
TreatedAsZip(filename, content_type, mtype) ==
    \/ Len(filename) > 1 /\ Upper(filename[Len(filename)]) = "ZIP"
    \/ "application/zip" \in {content_type, mtype}

check_forbidden(filename, content_type, c) ==
    IF HasForbiddenExt(filename) THEN TRUE
    ELSE IF Lower(content_type) \in forbidden_mime THEN TRUE
    ELSE IF Lower(magic_type(c)) \in forbidden_mime THEN TRUE
    ELSE IF TreatedAsZip(filename, content_type, magic_type(c))
    THEN IF namelist(c) = BadZip THEN FALSE
         ELSE \E i \in DOMAIN namelist(c) : HasForbiddenExt(namelist(c)[i])
    ELSE FALSE

\* rfc6266.build_header(filename, disposition=self.disposition, ...)
disposition == "inline"
build_header(filename) == [disposition |-> disposition, filename |-> filename]
NoDisp == [disposition |-> None, filename |-> NoName]

\* web_location(key, archived): the internal redirect under web_root or under
\* archive_web_root = web_root + '.archive'.
web_root == "web_root"
archive_web_root == "web_root.archive"
web_location(key, archived) == <<IF archived THEN archive_web_root ELSE web_root, key>>
NoLoc == <<>>

\* The position of the content stream post_file.file: at its start, somewhere
\* inside, or at its end.  What a read to the end of the stream returns from
\* there: all the bytes, the rest of them, or none.
Rest == "rest of the bytes"
ReadPass(c, pos) == IF pos = "start" THEN c ELSE IF pos = "part" THEN Rest ELSE ""

\* Mutant of Rewound: the stream stays where the pass before has left it.
Rewound_Not(pos) == pos

\* in_file.seek(0) / fp.seek(0), lines 107, 113, 124, 151 and 227.
Rewound(pos) == "start"

\* Where a POST leaves the stream: a connection that breaks or times out has sent
\* a part of it, an answered request all of it.
Consumed(resp) == IF resp = "unreachable" THEN "part" ELSE "end"

\* ------------------------------------------------------- metadata records
\* dict(uuid=uuid, hash=md5hash, created=now_iso); the keys a record lacks hold
\* None / NoName / NoDisp / <<>> / 0; meta.get('archived') is false unless an
\* archiver has set the key.
NewMeta(uuid, md5hash, now_iso) ==
    [uuid |-> uuid, hash |-> md5hash, created |-> now_iso, filename |-> NoName,
     ctype |-> None, disp |-> NoDisp, alternatives |-> <<>>, modified |-> 0,
     archived |-> FALSE]

IsRecord(m) == m \notin {MAbsent, MEmpty}
HasFilename(m) == IsRecord(m) /\ m.filename # NoName

\* A blob file: its bytes and whether chmod 0o440 has made it read-only.
NoFile == [data |-> Absent, ro |-> FALSE]
Exists(f) == f.data # Absent

\* ------------------------------------------------------------------ state
VARIABLES
    cfg,        \* settings: number of replica_apis, require_replica_upload, runs as root
    clock,      \* get_now(): advanced by every call
    dirs,       \* the shard directories that exist (by storage key)
    meta,       \* <name>.meta   by storage key
    metaTmp,    \* <name>.meta~  by storage key
    blob,       \* <name>        by storage key
    blobTmp,    \* <name>~       by storage key
    proc,       \* each process: its call, its local variables and where it stands
    acked,      \* history: by key, the filename of the latest upload that returned
                \* success (NoName while none has)
    failed,     \* history: keys whose latest finished upload raised replica_failed
    registered, \* history: keys whose identifier a register call has returned
    pre         \* history: the store when the latest call started (sequential runs)

vars ==
    <<cfg, clock, dirs, meta, metaTmp, blob, blobTmp, proc, acked, failed, registered, pre>>
store == <<dirs, meta, metaTmp, blob, blobTmp>>

IdleProc ==
    [pc |-> "idle", op |-> None, in_file |-> None, filename |-> NoName,
     content_type |-> None, uuid |-> NoUuid, given |-> FALSE, md5hash |-> None,
     meta |-> MAbsent,
     overwrite |-> FALSE, now_iso |-> 0, fd |-> None, replica |-> 0, n |-> 0,
     path |-> None, push |-> None, location |-> NoLoc, pos |-> None, posted |-> None,
     result |-> None]

\* The store as a call finds it, with the history of successful uploads.
Snapshot == [meta |-> meta, blob |-> blob, blobTmp |-> blobTmp, acked |-> acked]

Init ==
    /\ cfg \in [replicas : 0 .. MaxReplicas, require : BOOLEAN, root : BOOLEAN]
    /\ clock = 0
    /\ dirs = {}
    /\ meta = [k \in Keys |-> MAbsent]
    /\ metaTmp = [k \in Keys |-> MAbsent]
    /\ blob = [k \in Keys |-> NoFile]
    /\ blobTmp = [k \in Keys |-> NoFile]
    /\ proc = [p \in Procs |-> IdleProc]
    /\ acked = [k \in Keys |-> NoName]
    /\ failed = {}
    /\ registered = {}
    /\ pre = Snapshot

K(p) == uuid_to_file(proc[p].uuid)

\* Mutant of compare_digest: every pair of digests passes.
compare_digest_Always(a, b) == TRUE

\* hmac.compare_digest(meta['hash'], md5hash)
compare_digest(a, b) == a = b

\* Mutant of MustNotOverwrite: the exists test is lost.
MustNotOverwrite_Never(overwrite, stored) == FALSE

\* save_meta, line 81: not overwrite and os.path.exists(name)
MustNotOverwrite(overwrite, stored) == ~overwrite /\ stored # MAbsent

\* Mutant of WithAlternative: the incoming name replaces the record's filename.
WithAlternative_Renamed(stored, now_iso, filename) == [stored EXCEPT !.filename = filename]

\* upload, lines 205-210: the incoming name appended to the record's alternatives.
WithAlternative(stored, now_iso, filename) ==
    [stored EXCEPT !.alternatives = Append(@, [created |-> now_iso, filename |-> filename])]

\* Mutant of RenamedAway: the file stays under its name.
RenamedAway_Kept(files, k) == files

\* What is left under a name of key k after os.rename has moved its file away.
RenamedAway(files, k) == [files EXCEPT ![k] = NoFile]

\* What upload returns, lines 212 and 243: uuid, md5hash, content_type, filename.
Returned(r) ==
    [uuid |-> r.uuid, md5hash |-> r.md5hash, content_type |-> r.content_type,
     filename |-> r.filename]

\* The call of record r ends with result res (a return value or the exception raised).
Finish(r, res) ==
    [r EXCEPT !.pc = "done", !.result = res, !.fd = None, !.replica = 0, !.n = 0,
              !.overwrite = FALSE, !.pos = None]

\* What the end of a call adds to the history.
Note(r, res) ==
    LET k == uuid_to_file(r.uuid)
    IN  /\ acked' = IF r.op = "upload" /\ res = "ok"
                    THEN [acked EXCEPT ![k] = r.filename] ELSE acked
        /\ failed' = IF r.op = "upload" /\ res = "ReplicaFailed" THEN failed \cup {k}
                     ELSE IF r.op = "upload" /\ res = "ok" THEN failed \ {k}
                     ELSE failed
        /\ registered' = IF r.op = "register" /\ res = "ok"
                         THEN registered \cup {k} ELSE registered

Return(p, r, res) ==
    /\ proc' = [proc EXCEPT ![p] = Finish(r, res)]
    /\ Note(r, res)

Goto(p, r, label) ==
    /\ proc' = [proc EXCEPT ![p] = [r EXCEPT !.pc = label]]
    /\ UNCHANGED <<acked, failed, registered>>

\* ------------------------------------------------------------ the calls
\* register(md5hash), to the call of save_meta.
StartRegister(p, md5hash, now) ==
    LET uuid == hash_to_uuid(md5hash)
        r == [IdleProc EXCEPT !.op = "register", !.md5hash = md5hash, !.now_iso = now,
                              !.uuid = uuid, !.meta = NewMeta(uuid, md5hash, now)]
    IN  IF md5hash \in forbidden_hash
        THEN Return(p, [r EXCEPT !.uuid = NoUuid, !.meta = MAbsent], "Forbidden")
        ELSE Goto(p, r, "s_check")

\* upload(post_file, uuid), to the test os.path.exists(name).
StartUpload(p, c, filename, content_type, uuid, now) ==
    LET md5hash == compute_md5(ReadPass(c, Rewound("start")))   \* the stream as posted
        r == [IdleProc EXCEPT !.op = "upload", !.in_file = c, !.filename = filename,
                              !.content_type = content_type, !.uuid = uuid,
                              !.given = uuid # NoUuid,
                              !.md5hash = md5hash, !.now_iso = now, !.pos = "end"]
        stored == meta[uuid_to_file(uuid)]
    IN  IF md5hash \in forbidden_hash THEN Return(p, r, "Forbidden")
        ELSE IF uuid = NoUuid
        THEN Goto(p, [r EXCEPT !.uuid = hash_to_uuid(md5hash),
                               !.meta = NewMeta(hash_to_uuid(md5hash), md5hash, now)],
                  "u_exists")
        ELSE IF stored = MAbsent THEN Return(p, r, "KeyNotFound")
        ELSE IF stored = MEmpty THEN Return(p, r, "Error")
        ELSE IF ~compare_digest(stored.hash, md5hash) THEN Return(p, r, "HashInvalid")
        ELSE Goto(p, [r EXCEPT !.meta = stored], "u_exists")

\* Mutant of Refused: a record whose digest is forbidden is served.
Refused_UuidOnly(stored, uuid) == stored.uuid # uuid

\* get, lines 247-250: the record is another identifier's, or its digest is forbidden.
Refused(stored, uuid) == stored.uuid # uuid \/ stored.hash \in forbidden_hash

\* get(uuid) on the store as it is: the exception raised or "ok", with the
\* record returned and its X-Accel-Redirect.
get(uuid) ==
    LET stored == meta[uuid_to_file(uuid)]
        raise(e) == [result |-> e, meta |-> MAbsent, location |-> NoLoc]
    IN  IF stored = MAbsent THEN raise("KeyNotFound")
        ELSE IF stored = MEmpty THEN raise("Error")      \* json.load: ValueError
        ELSE IF Refused(stored, uuid) THEN raise("KeyNotFound")
        ELSE [result |-> "ok", meta |-> stored,
              location |-> web_location(uuid_to_file(uuid), stored.archived)]

StartGet(p, uuid, now) ==
    LET r == [IdleProc EXCEPT !.op = "get", !.uuid = uuid, !.now_iso = now]
        g == get(uuid)
    IN  Return(p, [r EXCEPT !.meta = g.meta, !.location = g.location], g.result)

\* A call starts: register(d), upload(c, f, t, u) or get(u), its arguments drawn
\* from the sets given.
StartCall(p, limit, D, C, F, T, U) ==
    /\ proc[p].pc \in {"idle", "done"}
    /\ clock < limit
    /\ clock' = clock + 1
    /\ \/ \E d \in D : StartRegister(p, d, clock + 1)
       \/ \E c \in C, f \in F, t \in T, u \in U \cup {NoUuid} :
              StartUpload(p, c, f, t, u, clock + 1)
       \/ \E u \in U : StartGet(p, u, clock + 1)
    /\ UNCHANGED <<cfg, store>>

\* Calls on one identifier, as concurrent processes race on it.
TheContent == "content"
TheUuid == hash_to_uuid(compute_md5(TheContent))

Start(p) ==
    /\ StartCall(p, MaxConc, {compute_md5(TheContent)}, {TheContent},
                 {<<"file", "txt">>, <<"file2", "txt">>}, {"text/plain"}, {TheUuid})
    /\ pre' = pre

\* Mutant of Described: the record keeps the filename it had.
Described_KeepName(r) ==
    [r.meta EXCEPT !.ctype = r.content_type, !.disp = build_header(r.filename)]

\* The record of an upload that stores: lines 218-223.
Described(r) ==
    [r.meta EXCEPT !.filename = r.filename, !.ctype = r.content_type,
                   !.disp = build_header(r.filename)]

\* Mutant of UExists: the record is saved before the content filter is asked.
UExists_SaveFirst(p) ==
    LET r == proc[p] IN
    /\ r.pc = "u_exists"
    /\ IF Exists(blob[K(p)])
       THEN Goto(p, [r EXCEPT !.path = "dedup"], "u_dedup") /\ meta' = meta
       ELSE IF check_forbidden(r.filename, r.content_type,
                               ReadPass(r.in_file, Rewound(r.pos)))
       THEN Return(p, r, "Forbidden") /\ meta' = [meta EXCEPT ![K(p)] = Described(r)]
       ELSE /\ Goto(p, [r EXCEPT !.path = "store", !.overwrite = TRUE, !.pos = "end",
                                 !.meta = Described(r)], "s_check")
            /\ meta' = meta
    /\ UNCHANGED <<cfg, clock, dirs, metaTmp, blob, blobTmp, pre>>

\* upload, lines 200-216: os.path.exists(name), then the content filter (which
\* rewinds the stream before it reads, lines 107 and 113) and the
\* record's descriptive fields, to the call of save_meta.
UExists(p) ==
    LET r == proc[p] IN
    /\ r.pc = "u_exists"
    /\ IF Exists(blob[K(p)])
       THEN Goto(p, [r EXCEPT !.path = "dedup"], "u_dedup")
       ELSE IF check_forbidden(r.filename, r.content_type,
                               ReadPass(r.in_file, Rewound(r.pos)))
       THEN Return(p, r, "Forbidden")
       ELSE Goto(p, [r EXCEPT !.path = "store", !.overwrite = TRUE, !.pos = "end",
                              !.meta = Described(r)], "s_check")
    /\ UNCHANGED <<cfg, clock, store, pre>>

\* Mutant of OtherName: every upload of stored content counts as a new name.
OtherName_Always(stored, filename) == TRUE

\* upload, line 204: meta['filename'] != filename
OtherName(stored, filename) == stored.filename # filename

\* upload, lines 203-212: the stored record is read again and the new name appended.
UDedup(p) ==
    LET r == proc[p]
        stored == meta[K(p)]
    IN
    /\ r.pc = "u_dedup"
    /\ IF stored = MAbsent THEN Return(p, r, "KeyNotFound")
       ELSE IF stored = MEmpty THEN Return(p, r, "Error")
       ELSE IF stored.filename = NoName THEN Return(p, [r EXCEPT !.meta = stored], "Error")
       ELSE IF OtherName(stored, r.filename)
       THEN Goto(p, [r EXCEPT !.overwrite = TRUE,
                              !.meta = WithAlternative(stored, r.now_iso, r.filename)],
                 "s_check")
       ELSE Return(p, [r EXCEPT !.meta = stored], "ok")
    /\ UNCHANGED <<cfg, clock, store, pre>>

\* ---------------------------------------------------------------- save_meta
\* Lines 81-84: the exists test of overwrite=False, the modified stamp, and the
\* test of the shard directory.
SCheck(p) ==
    LET r == proc[p] IN
    /\ r.pc = "s_check"
    /\ IF MustNotOverwrite(r.overwrite, meta[K(p)])
       THEN Return(p, r, "ok")          \* ContentUploaded, swallowed by register
       ELSE Goto(p, [r EXCEPT !.meta = [r.meta EXCEPT !.modified = clock]],
                 IF K(p) \in dirs THEN "s_open" ELSE "s_mkdir")
    /\ UNCHANGED <<cfg, clock, store, pre>>

\* Line 85: os.makedirs raises OSError when the directory has appeared meanwhile.
SMkdir(p) ==
    LET r == proc[p] IN
    /\ r.pc = "s_mkdir"
    /\ IF K(p) \in dirs
       THEN Return(p, r, "Error") /\ dirs' = dirs
       ELSE Goto(p, r, "s_open") /\ dirs' = dirs \cup {K(p)}
    /\ UNCHANGED <<cfg, clock, meta, metaTmp, blob, blobTmp, pre>>

\* The processes that hold an open descriptor (and the flock) on a .meta~ / blob~
\* file of key k.
MetaWriters(k) == {q \in Procs : proc[q].pc = "s_write" /\ K(q) = k}
BlobWriters(k) == {q \in Procs : proc[q].pc \in {"b_copy", "b_close"} /\ K(q) = k}

\* Lines 86-87: open(name + '~', 'wt') creates or truncates the one temporary
\* file, then flock(LOCK_EX | LOCK_NB) raises IOError if another descriptor on
\* that file holds the lock.
SOpen(p) ==
    LET r == proc[p]
        k == K(p)
    IN
    /\ r.pc = "s_open"
    /\ metaTmp' = [metaTmp EXCEPT ![k] = MEmpty]
    /\ IF \E q \in MetaWriters(k) \ {p} : proc[q].fd = "tmp"
       THEN Return(p, r, "Error")
       ELSE Goto(p, [r EXCEPT !.fd = "tmp"], "s_write")
    /\ UNCHANGED <<cfg, clock, dirs, meta, blob, blobTmp, pre>>

\* Line 88 and the end of the with block: json.dump and close write the record
\* into the file the descriptor is open on, wherever that file is now.
SWrite(p) ==
    LET r == proc[p]
        k == K(p)
    IN
    /\ r.pc = "s_write"
    /\ metaTmp' = IF r.fd = "tmp" THEN [metaTmp EXCEPT ![k] = r.meta] ELSE metaTmp
    /\ meta' = IF r.fd = "final" THEN [meta EXCEPT ![k] = r.meta] ELSE meta
    /\ Goto(p, [r EXCEPT !.fd = None], "s_rename")
    /\ UNCHANGED <<cfg, clock, dirs, blob, blobTmp, pre>>

\* Where an open descriptor's file is after rename(tmp, final).
AfterPublish(fd) == IF fd = "tmp" THEN "final" ELSE IF fd = "final" THEN "unlinked" ELSE fd
\* Where an open descriptor's file is after rename(final, tmp).
AfterUnpublish(fd) == IF fd = "final" THEN "tmp" ELSE IF fd = "tmp" THEN "unlinked" ELSE fd

\* Lines 89-90: os.rename(name + '~', name), os.chmod; back in the caller.
SRename(p) ==
    LET r == proc[p]
        k == K(p)
        moved == [q \in Procs |->
                    IF q \in MetaWriters(k) THEN [proc[q] EXCEPT !.fd = AfterPublish(@)]
                    ELSE proc[q]]
    IN
    /\ r.pc = "s_rename"
    /\ IF metaTmp[k] = MAbsent
       THEN /\ Return(p, r, "Error")
            /\ UNCHANGED <<meta, metaTmp>>
       ELSE /\ meta' = [meta EXCEPT ![k] = metaTmp[k]]
            /\ metaTmp' = [metaTmp EXCEPT ![k] = MAbsent]
            /\ IF r.op = "upload" /\ r.path = "store"
               THEN /\ proc' = [moved EXCEPT ![p] = [r EXCEPT !.pc = "b_open"]]
                    /\ UNCHANGED <<acked, failed, registered>>
               ELSE /\ proc' = [moved EXCEPT ![p] = Finish(r, "ok")]
                    /\ Note(r, "ok")
    /\ UNCHANGED <<cfg, clock, dirs, blob, blobTmp, pre>>

\* ----------------------------------------------------------- the blob write
\* Lines 227-229: in_file.seek(0), then open(name + '~', 'wb')
\* creates or truncates the one temporary
\* file (IOError when it exists read-only and the process is not root), then
\* flock(LOCK_EX | LOCK_NB).
BOpen(p) ==
    LET r == proc[p]
        k == K(p)
    IN
    /\ r.pc = "b_open"
    /\ IF Exists(blobTmp[k]) /\ blobTmp[k].ro /\ ~cfg.root
       THEN Return(p, r, "Error") /\ blobTmp' = blobTmp
       ELSE /\ blobTmp' = [blobTmp EXCEPT ![k] = [@ EXCEPT !.data = Empty]]
            /\ IF \E q \in BlobWriters(k) \ {p} : proc[q].fd = "tmp"
               THEN Return(p, r, "Error")
               ELSE Goto(p, [r EXCEPT !.fd = "tmp", !.pos = Rewound(@)], "b_copy")
    /\ UNCHANGED <<cfg, clock, dirs, meta, metaTmp, blob, pre>>

\* copyfileobj copies from where the stream stands (r.pos, held until the copy
\* is over) to its end.  What a file holds after the writer's next chunk: the
\* first chunk gives a part
\* of the bytes; the last completes them, unless the file was truncated under the
\* writer, which leaves a hole before the bytes written now.
Written(data, c, last) ==
    IF ~last THEN Partial
    ELSE IF data = Partial THEN c
    ELSE Partial

WriteChunk(p, last) ==
    LET r == proc[p]
        k == K(p)
        bytes == ReadPass(r.in_file, r.pos)
    IN
    /\ blobTmp' = IF r.fd = "tmp" /\ Exists(blobTmp[k])
                  THEN [blobTmp EXCEPT ![k] = [@ EXCEPT !.data = Written(@, bytes, last)]]
                  ELSE blobTmp
    /\ blob' = IF r.fd = "final" /\ Exists(blob[k])
               THEN [blob EXCEPT ![k] = [@ EXCEPT !.data = Written(@, bytes, last)]]
               ELSE blob

\* Line 230: copyfileobj writes the stream in blocks; the first block.
BCopy(p) ==
    /\ proc[p].pc = "b_copy"
    /\ WriteChunk(p, FALSE)
    /\ Goto(p, proc[p], "b_close")
    /\ UNCHANGED <<cfg, clock, dirs, meta, metaTmp, pre>>

\* Line 230 and the end of the with block: the remaining blocks, and close.
BClose(p) ==
    /\ proc[p].pc = "b_close"
    /\ WriteChunk(p, TRUE)
    /\ Goto(p, [proc[p] EXCEPT !.fd = None, !.pos = "end"], "b_rename")
    /\ UNCHANGED <<cfg, clock, dirs, meta, metaTmp, pre>>

\* Line 231: os.rename(name + '~', name)
BRename(p) ==
    LET r == proc[p]
        k == K(p)
        moved == [q \in Procs |->
                    IF q \in BlobWriters(k) THEN [proc[q] EXCEPT !.fd = AfterPublish(@)]
                    ELSE proc[q]]
    IN
    /\ r.pc = "b_rename"
    /\ IF ~Exists(blobTmp[k])
       THEN /\ Return(p, r, "Error")
            /\ UNCHANGED <<blob, blobTmp>>
       ELSE /\ blob' = [blob EXCEPT ![k] = blobTmp[k]]
            /\ blobTmp' = RenamedAway(blobTmp, k)
            /\ proc' = [moved EXCEPT ![p] = [r EXCEPT !.pc = "b_chmod"]]
            /\ UNCHANGED <<acked, failed, registered>>
    /\ UNCHANGED <<cfg, clock, dirs, meta, metaTmp, pre>>

\* Lines 232-236: os.chmod(name, 0o440); then the replicas, if any are configured.
BChmod(p) ==
    LET r == proc[p]
        k == K(p)
    IN
    /\ r.pc = "b_chmod"
    /\ IF ~Exists(blob[k])
       THEN Return(p, r, "Error") /\ blob' = blob
       ELSE /\ blob' = [blob EXCEPT ![k] = [@ EXCEPT !.ro = TRUE]]
            /\ IF cfg.replicas > 0
               THEN Goto(p, [r EXCEPT !.replica = 1, !.n = 0], "push")
               ELSE Return(p, r, "ok")
    /\ UNCHANGED <<cfg, clock, dirs, meta, metaTmp, blobTmp, pre>>

\* ------------------------------------------------------- upload_to_replicas
\* What one POST to a replica may answer.
Responses == {"unreachable", "http500", "http204", "ok200", "mismatch200"}

\* One pass of the try block, lines 150-162, on answer resp: "break" (the replica
\* has the content), "next" (the loop goes on to its next pass with nothing
\* raised), or "except" (an exception reaches line 163).
TryPost(resp) ==
    CASE resp = "unreachable" -> "except"     \* session.post raises
      [] resp = "http500"     -> "except"     \* raise_for_status raises
      [] resp = "http204"     -> "next"       \* no error, status_code # 200
      [] resp = "ok200"       -> "break"
      [] resp = "mismatch200" -> "except"     \* ValueError, raised inside the try

\* Lines 163-168: the handler re-raises on the last pass, else sleeps and retries.
Reraise(n) == n >= max_retry - 1

\* Mutant of AfterPush: a failed push is fatal whatever the policy.
AfterPush_AlwaysFatal(p, r, raised) ==
    IF ~raised THEN Return(p, [r EXCEPT !.push = "returned"], "ok")
    ELSE Goto(p, [r EXCEPT !.push = "raised"], "u_rollback")

\* Lines 234-243 around the push: it returned, or it raised (kept in r.push).
AfterPush(p, r, raised) ==
    IF ~raised THEN Return(p, [r EXCEPT !.push = "returned"], "ok")
    ELSE IF cfg.require THEN Goto(p, [r EXCEPT !.push = "raised"], "u_rollback")
    ELSE Return(p, [r EXCEPT !.push = "raised"], "ok")

NextReplica(p, r) ==
    IF r.replica < cfg.replicas
    THEN Goto(p, [r EXCEPT !.replica = @ + 1, !.n = 0], "push")
    ELSE AfterPush(p, r, FALSE)

\* Mutant of NextPass: the loop index starts over instead of advancing.
NextPass_Restart(n) == IF n >= 1 THEN 0 ELSE n + 1

\* Line 149: for n in range(max_retry), the index of the pass after pass n.
NextPass(n) == n + 1

\* One pass of the retry loop for the current replica, answered by resp: the
\* stream is rewound (line 151) and posted from there (r.posted).
AttemptWith(p, resp) ==
    LET r == [proc[p] EXCEPT !.posted = ReadPass(proc[p].in_file, Rewound(proc[p].pos)),
                             !.pos = Consumed(resp)]
        t == TryPost(resp)
    IN
    /\ r.pc = "push"
    /\ IF t = "break" THEN NextReplica(p, r)
       ELSE IF t = "except" /\ Reraise(r.n) THEN AfterPush(p, r, TRUE)
       ELSE IF NextPass(r.n) < max_retry THEN Goto(p, [r EXCEPT !.n = NextPass(@)], "push")
       ELSE NextReplica(p, r)
    /\ UNCHANGED <<cfg, clock, store, pre>>

Attempt(p) == \E resp \in Responses : AttemptWith(p, resp)

\* Lines 240-241: os.rename(name, name + '~'), raise StorageUploadError('replica_failed').
Rollback(p) ==
    LET r == proc[p]
        k == K(p)
        moved == [q \in Procs |->
                    IF q \in BlobWriters(k) THEN [proc[q] EXCEPT !.fd = AfterUnpublish(@)]
                    ELSE proc[q]]
    IN
    /\ r.pc = "u_rollback"
    /\ IF ~Exists(blob[k])
       THEN /\ Return(p, r, "Error")
            /\ UNCHANGED <<blob, blobTmp>>
       ELSE /\ blobTmp' = [blobTmp EXCEPT ![k] = blob[k]]
            /\ blob' = RenamedAway(blob, k)
            /\ proc' = [moved EXCEPT ![p] = Finish(r, "ReplicaFailed")]
            /\ Note(r, "ReplicaFailed")
    /\ UNCHANGED <<cfg, clock, dirs, meta, metaTmp, pre>>

\* ------------------------------------------------------- the specifications
\* Independent processes on one store directory: any interleaving of their steps.
Next ==
    \E p \in Procs :
        \/ Start(p)
        \/ UExists(p)
        \/ UDedup(p)
        \/ SCheck(p)
        \/ SMkdir(p)
        \/ SOpen(p)
        \/ SWrite(p)
        \/ SRename(p)
        \/ BOpen(p)
        \/ BCopy(p)
        \/ BClose(p)
        \/ BRename(p)
        \/ BChmod(p)
        \/ Attempt(p)
        \/ Rollback(p)

Spec == Init /\ [][Next]_vars

\* One call at a time, each run to its end before the next starts.
SeqStart(p) ==
    /\ p = 1
    /\ StartCall(p, MaxOps, Digests, Contents, Filenames, ContentTypes, Uuids)
    /\ pre' = Snapshot

SeqNext ==
    \E p \in Procs :
        \/ SeqStart(p)
        \/ UExists(p)
        \/ UDedup(p)
        \/ SCheck(p)
        \/ SMkdir(p)
        \/ SOpen(p)
        \/ SWrite(p)
        \/ SRename(p)
        \/ BOpen(p)
        \/ BCopy(p)
        \/ BClose(p)
        \/ BRename(p)
        \/ BChmod(p)
        \/ Attempt(p)
        \/ Rollback(p)

SeqSpec == Init /\ [][SeqNext]_vars

\* Uploads of one content, one after the other, where every step of a call that
\* has started is taken in the end: a POST returns or times out
\* (replica_timeout), and sleep(n + 1) ends.
RetryStart(p) ==
    /\ p = 1
    /\ StartCall(p, MaxOps, {}, {TheContent}, {<<"file", "txt">>}, {"text/plain"}, {})
    /\ pre' = Snapshot

Step(p) ==
    \/ UExists(p)
    \/ UDedup(p)
    \/ SCheck(p)
    \/ SMkdir(p)
    \/ SOpen(p)
    \/ SWrite(p)
    \/ SRename(p)
    \/ BOpen(p)
    \/ BCopy(p)
    \/ BClose(p)
    \/ BRename(p)
    \/ BChmod(p)
    \/ Attempt(p)
    \/ Rollback(p)

RetryNext ==
    \E p \in Procs :
        \/ RetryStart(p)
        \/ UExists(p)
        \/ UDedup(p)
        \/ SCheck(p)
        \/ SMkdir(p)
        \/ SOpen(p)
        \/ SWrite(p)
        \/ SRename(p)
        \/ BOpen(p)
        \/ BCopy(p)
        \/ BClose(p)
        \/ BRename(p)
        \/ BChmod(p)
        \/ Attempt(p)
        \/ Rollback(p)

RetrySpec == Init /\ [][RetryNext]_vars /\ WF_vars(\E p \in Procs : Step(p))

\* The content filter alone: check_forbidden(filename, content_type, fp) on
\* every name, declared type and content of the sets above.
CheckForbidden(p) ==
    /\ p = 1
    /\ \E f \in FilterNames, t \in FilterTypes, c \in FilterContents :
          proc' = [proc EXCEPT ![p] =
                      [IdleProc EXCEPT !.pc = "done", !.op = "check_forbidden",
                                       !.filename = f, !.content_type = t, !.in_file = c,
                                       !.result = IF check_forbidden(f, t, c)
                                                  THEN "Forbidden" ELSE "ok"]]
    /\ UNCHANGED <<cfg, clock, store, acked, failed, registered, pre>>

FilterNext == \E p \in Procs : CheckForbidden(p)

FilterSpec == Init /\ [][FilterNext]_vars

\* get alone, on every store of well-formed records: those that sequential calls
\* leave, archived ones, a record that carries another identifier, and records
\* of a digest that the forbidden set holds now.
ContentOf(d) == CHOOSE c \in Contents : compute_md5(c) = d
HasContent(d) == \E c \in Contents : compute_md5(c) = d

StoredRecords(d) ==
    LET u == hash_to_uuid(d)
        fresh == NewMeta(u, d, 0)
        uploaded == [fresh EXCEPT !.filename = <<"file", "txt">>,
                                  !.ctype = "text/plain",
                                  !.disp = build_header(<<"file", "txt">>)]
    IN  {MAbsent, fresh}
        \cup {[fresh EXCEPT !.uuid = v] : v \in Uuids \ {u}}
        \cup (IF HasContent(d) THEN {uploaded, [uploaded EXCEPT !.archived = TRUE]} ELSE {})

GetInit ==
    /\ cfg \in [replicas : 0 .. MaxReplicas, require : BOOLEAN, root : BOOLEAN]
    /\ clock = 0
    /\ meta \in {m \in [Keys -> UNION {StoredRecords(d) : d \in Digests}] :
                    \A d \in Digests : m[uuid_to_file(hash_to_uuid(d))] \in StoredRecords(d)}
    /\ dirs = {k \in Keys : meta[k] # MAbsent}
    /\ metaTmp = [k \in Keys |-> MAbsent]
    /\ blob = [k \in Keys |->
                 IF HasFilename(meta[k])
                 THEN [data |-> ContentOf(meta[k].hash), ro |-> TRUE] ELSE NoFile]
    /\ blobTmp = [k \in Keys |-> NoFile]
    /\ proc = [p \in Procs |-> IdleProc]
    /\ acked = [k \in Keys |-> NoName]
    /\ failed = {}
    /\ registered = {}
    /\ pre = Snapshot

GetCall(p) ==
    /\ p = 1
    /\ StartCall(p, MaxOps, {}, {}, {}, {}, Uuids)
    /\ pre' = Snapshot

GetNext == \E p \in Procs : GetCall(p)

GetSpec == GetInit /\ [][GetNext]_vars

\* ------------------------------------------------------------------ claims
Last(seq) == seq[Len(seq)]
IsPrefix(s, t) == Len(s) <= Len(t) /\ SubSeq(t, 1, Len(s)) = s
\* The one caller of sequential runs, and the key of its call.
R == proc[1]
RKey == uuid_to_file(proc[1].uuid)
Ended == proc[1].pc = "done"

\* An upload of the caller has ended, made without an identifier or with the
\* identifier of its own content.
UploadEnded == Ended /\ R.op = "upload" /\ R.uuid = hash_to_uuid(R.md5hash)

EndsWith(alts, filename) == Len(alts) > 0 /\ Last(alts).filename = filename

\* C1 (as stated): once upload(content, f1) has returned success, a following
\* upload(content, f2) with f2 # f1 writes no blob, leaves the record's filename
\* f1, and leaves f2 as the last entry of the record's alternatives.
C1_Original ==
    (UploadEnded /\ pre.acked[RKey] # NoName /\ pre.acked[RKey] # R.filename)
    => /\ R.result = "ok"
       /\ R.path # "store"
       /\ blob = pre.blob /\ blobTmp = pre.blobTmp
       /\ meta[RKey].filename = pre.acked[RKey]
       /\ EndsWith(meta[RKey].alternatives, R.filename)

\* C1 (as amended): when the content is stored (an upload of it has succeeded) and
\* its record's filename is f1, upload(content, f2) with f2 # f1 returns success,
\* writes no blob, leaves the record's filename f1, and leaves f2 as the last
\* entry of the record's alternatives.
C1_Case ==
    /\ UploadEnded
    /\ Exists(pre.blob[RKey])
    /\ HasFilename(pre.meta[RKey])
    /\ pre.meta[RKey].filename # R.filename

C1_Dedup ==
    C1_Case
    => /\ R.result = "ok"
       /\ R.path # "store"
       /\ blob = pre.blob /\ blobTmp = pre.blobTmp
       /\ meta[RKey].filename = pre.meta[RKey].filename
       /\ EndsWith(meta[RKey].alternatives, R.filename)

C1_Witness == C1_Case /\ R.result = "ok" /\ Len(meta[RKey].alternatives) = 1

\* C2 (as stated): once a record holds a filename and a content type, no step of
\* any call changes them, and its alternatives only grow by appending.
C2_MetadataImmutable ==
    [][\A k \in Keys :
          HasFilename(meta[k])
          => /\ HasFilename(meta'[k])
             /\ meta'[k].filename = meta[k].filename
             /\ meta'[k].ctype = meta[k].ctype
             /\ IsPrefix(meta[k].alternatives, meta'[k].alternatives)]_vars

\* C3 (as stated): after an upload has failed with replica_failed, a get of that
\* identifier raises KeyNotFound.
C3_RetrieveAfterReplicaFailed ==
    (Ended /\ R.op = "get" /\ RKey \in failed) => R.result = "KeyNotFound"

\* C4: whenever an upload ends with replica_failed, no blob is under the final
\* name of its storage key as it ends.
C4_RolledBackOnReplicaFailed ==
    [][\A p \in Procs :
          (proc[p].pc # "done" /\ proc'[p].pc = "done" /\ proc'[p].result = "ReplicaFailed")
          => ~Exists(blob'[K(p)])]_vars

C4_Witness ==
    \E p \in Procs :
        /\ proc[p].pc = "done" /\ proc[p].result = "ReplicaFailed"
        /\ ~Exists(blob[K(p)]) /\ blobTmp[K(p)].data = proc[p].in_file

\* C5 (as stated): under any interleaving, what is under a final name is never a
\* truncated or partly written record or blob.
C5_AtomicVisibility ==
    \A k \in Keys : meta[k] # MEmpty /\ blob[k].data \notin {Empty, Partial}

\* C6 (as stated): once an upload for an identifier has returned success, its
\* blob stays published, whatever the other processes do.
C6_DurableOnceAcked ==
    \A k \in Keys : acked[k] # NoName => Exists(blob[k])

\* An upload of the caller has ended that named the identifier of a record whose
\* digest is not the digest of the content.
C7_Mismatch ==
    /\ Ended /\ R.op = "upload"
    /\ R.uuid \in Uuids
    /\ IsRecord(pre.meta[RKey])
    /\ pre.meta[RKey].hash # compute_md5(R.in_file)

C7_Untouched ==
    /\ R.path # "store"
    /\ blob = pre.blob /\ blobTmp = pre.blobTmp
    /\ meta = pre.meta

\* C7 (as stated): an upload with a pre-registered identifier whose record digest
\* differs from the digest of the content fails with HashInvalid, writes no blob
\* and leaves the record unchanged.
C7_Original == C7_Mismatch => (R.result = "HashInvalid" /\ C7_Untouched)

\* C7 (as amended): the same, for content whose digest is not forbidden (content
\* with a forbidden digest is refused as forbidden before the record is read).
C7_HashBinding ==
    (C7_Mismatch /\ compute_md5(R.in_file) \notin forbidden_hash)
    => (R.result = "HashInvalid" /\ C7_Untouched)

C7_Witness ==
    /\ C7_Mismatch
    /\ R.result = "HashInvalid"
    /\ ~HasFilename(meta[RKey])

\* C8: register(d) of a digest that is not forbidden returns the identifier of
\* d in every store state that sequential calls reach, and leaves a record that
\* was already there unchanged.
C8_RegisterIdempotent ==
    (Ended /\ R.op = "register" /\ R.md5hash \notin forbidden_hash)
    => /\ R.result = "ok"
       /\ R.uuid = hash_to_uuid(R.md5hash)
       /\ IsRecord(meta[RKey]) /\ meta[RKey].uuid = R.uuid /\ meta[RKey].hash = R.md5hash
       /\ pre.meta[RKey] # MAbsent => meta[RKey] = pre.meta[RKey]

C8_Witness ==
    /\ Ended /\ R.op = "register" /\ R.result = "ok"
    /\ pre.meta[RKey] # MAbsent
    /\ HasFilename(meta[RKey])

\* C9 (as stated): a save_meta with overwrite=False never replaces a record that
\* exists; a record that carries a filename is never replaced by one without.
C9_NoReplaceWithoutOverwrite ==
    [][/\ \A p \in Procs :
             (proc[p].pc = "s_rename" /\ ~proc[p].overwrite /\ proc'[p].pc # "s_rename")
             => (meta[K(p)] = MAbsent \/ meta'[K(p)] = meta[K(p)])
       /\ \A k \in Keys :
             (HasFilename(meta[k]) /\ IsRecord(meta'[k])) => HasFilename(meta'[k])]_vars

\* C10 (as stated): after a replica has answered 200 with another identifier,
\* the push makes no further attempt: it has raised.
C10_MismatchNotRetried ==
    [][\A p \in Procs : AttemptWith(p, "mismatch200") => proc'[p].pc # "push"]_vars

\* C11 (as stated): an attempt that gets anything but a 200 answer with the
\* matching identifier is a failed attempt: before the last pass the same replica
\* is tried again, and on the last pass the push raises; it does not return.
C11_ExhaustionRaises ==
    [][\A p \in Procs : \A resp \in Responses \ {"ok200"} :
          AttemptWith(p, resp)
          => IF proc[p].n < max_retry - 1
             THEN /\ proc'[p].pc = "push"
                  /\ proc'[p].replica = proc[p].replica
                  /\ proc'[p].n = proc[p].n + 1
             ELSE proc'[p].push = "raised"]_vars

\* The storage key of the content the caller has sent.
CKey == uuid_to_file(hash_to_uuid(R.md5hash))

\* A name has a forbidden extension among its last two dot-separated extensions.
ForbiddenName(f) ==
    \E i \in 2 .. Len(f) : i >= Len(f) - 1 /\ Upper(f[i]) \in forbidden_ext

\* An upload of the caller has ended whose filename has a forbidden extension
\* among its last two.
C12_Case == Ended /\ R.op = "upload" /\ ForbiddenName(R.filename)

GroundExt == ForbiddenName(R.filename)
GroundDeclared == Lower(R.content_type) \in forbidden_mime
GroundSniffed == Lower(magic_type(R.in_file)) \in forbidden_mime
GroundMember ==
    /\ \/ Len(R.filename) > 1 /\ Upper(Last(R.filename)) = "ZIP"
       \/ R.content_type = "application/zip"
       \/ magic_type(R.in_file) = "application/zip"
    /\ namelist(R.in_file) # BadZip
    /\ \E i \in DOMAIN namelist(R.in_file) : ForbiddenName(namelist(R.in_file)[i])

\* C13: the content filter rejects exactly when the name has a forbidden
\* extension among its last two, or the declared type is forbidden, or the
\* sniffed type is forbidden, or the content is treated as a zip, parses as an
\* archive and a member name has a forbidden extension (among its last two).
C13_FilterVerdict ==
    R.op = "check_forbidden"
    => ((R.result = "Forbidden")
        <=> (GroundExt \/ GroundDeclared \/ GroundSniffed \/ GroundMember))

C13_Witness ==
    /\ R.op = "check_forbidden" /\ R.result = "Forbidden"
    /\ ~GroundExt /\ ~GroundDeclared /\ ~GroundSniffed
    /\ R.in_file = OfficeZip

\* C14: an upload that ends with ForbiddenContent, by its digest or by the
\* content filter, with or without a registered identifier, leaves the records
\* and the blobs (published and temporary) as they were when it started.
C14_RejectedLeavesNothing ==
    (Ended /\ R.op = "upload" /\ R.result = "Forbidden")
    => /\ meta = pre.meta
       /\ blob = pre.blob
       /\ blobTmp = pre.blobTmp
       /\ \A k \in Keys : metaTmp[k] = MAbsent

C14_Witness ==
    /\ Ended /\ R.op = "upload" /\ R.result = "Forbidden"
    /\ R.md5hash \notin forbidden_hash
    /\ IsRecord(pre.meta[CKey]) /\ ~HasFilename(pre.meta[CKey])
    /\ meta = pre.meta

\* C15: get(id) raises KeyNotFound when there is no record for id, when the
\* record carries another identifier, or when its digest is forbidden; else it
\* returns the record with its delivery location; it changes nothing in the store.
C15_Retrieve ==
    (Ended /\ R.op = "get")
    => LET stored == pre.meta[RKey] IN
       /\ IF stored = MAbsent THEN R.result = "KeyNotFound"
          ELSE IF stored.uuid # R.uuid THEN R.result = "KeyNotFound"
          ELSE IF stored.hash \in forbidden_hash THEN R.result = "KeyNotFound"
          ELSE /\ R.result = "ok"
               /\ R.meta = stored
               /\ R.location
                    = <<IF stored.archived THEN archive_web_root ELSE web_root, RKey>>
       /\ meta = pre.meta /\ blob = pre.blob /\ blobTmp = pre.blobTmp

C15_Witness ==
    /\ Ended /\ R.op = "get" /\ R.result = "KeyNotFound"
    /\ HasFilename(pre.meta[RKey])
    /\ pre.meta[RKey].uuid = R.uuid
    /\ pre.meta[RKey].hash \in forbidden_hash

\* An upload of content with the identifier that register returned for its
\* digest has ended with success.
C16_Case == UploadEnded /\ R.result = "ok" /\ R.given /\ RKey \in registered

C16_Returned ==
    LET g == get(R.uuid) IN
    /\ g.result = "ok"
    /\ g.meta.filename = R.filename
    /\ g.meta.hash = compute_md5(R.in_file)
    /\ g.meta.disp = [disposition |-> "inline", filename |-> R.filename]
    /\ g.location = <<web_root, RKey>>

\* C16 (as stated): after register(digest(content)) and a successful
\* upload(content, filename) with the identifier returned, get of the identifier
\* returns a record with that filename, the digest of the content and the
\* content-disposition built from that filename.
C16_Original == C16_Case => C16_Returned

\* C16 (as amended): the same, when the content was not already stored under
\* another filename as the upload was made.
C16_RoundTrip == (C16_Case /\ ~C1_Case) => C16_Returned

C16_Witness ==
    /\ C16_Case /\ C16_Returned
    /\ IsRecord(pre.meta[RKey]) /\ ~HasFilename(pre.meta[RKey])
    /\ R.path = "store"

\* C17: with replicas configured and require_replica_upload off, an upload whose
\* push has raised still returns success, with its blob published and its record
\* saved.
C17_NonFatalPolicy ==
    (Ended /\ R.op = "upload" /\ R.push = "raised" /\ ~cfg.require)
    => /\ cfg.replicas > 0
       /\ R.result = "ok"
       /\ blob[RKey] = [data |-> R.in_file, ro |-> TRUE]
       /\ HasFilename(meta[RKey])
       /\ meta[RKey].filename = R.filename
       /\ meta[RKey].hash = R.md5hash

C17_Witness ==
    /\ Ended /\ R.op = "upload" /\ R.push = "raised" /\ ~cfg.require
    /\ R.result = "ok"
    /\ Exists(blob[RKey])
    /\ acked[RKey] = R.filename

\* C18 (as stated): an upload that finds its content already stored returns the
\* filename and the content type of the existing record, and makes no push.
C18_DedupReturnsRecord ==
    (UploadEnded /\ R.result = "ok" /\ Exists(pre.blob[RKey]))
    => /\ R.path = "dedup"
       /\ R.push = None
       /\ Returned(R).filename = meta[RKey].filename
       /\ Returned(R).content_type = meta[RKey].ctype

\* C19 (as stated): the rename that publishes a blob never replaces a blob that
\* is published under the final name, and no process writes a blob for a key
\* while a blob is published there.
C19_WriteOnce ==
    [][\A p \in Procs :
          /\ (proc[p].pc = "b_rename" /\ proc'[p].pc = "b_chmod") => ~Exists(blob[K(p)])
          /\ proc'[p].pc \in {"b_copy", "b_close"} => ~Exists(blob'[K(p)])]_vars

\* An upload of the caller has ended, of content that was stored, under the
\* filename of its record.
C20_Case ==
    /\ UploadEnded
    /\ Exists(pre.blob[RKey])
    /\ HasFilename(pre.meta[RKey])
    /\ pre.meta[RKey].filename = R.filename

\* C20: an upload of stored content under the filename of its record returns
\* success and leaves the record (modified stamp and alternatives included) and
\* the blob as they were.
C20_ReuploadNoOp ==
    C20_Case
    => /\ R.result = "ok"
       /\ meta = pre.meta
       /\ blob = pre.blob /\ blobTmp = pre.blobTmp
       /\ \A k \in Keys : metaTmp[k] = MAbsent

C20_Witness ==
    /\ C20_Case /\ R.result = "ok"
    /\ R.content_type # meta[RKey].ctype
    /\ meta[RKey].modified < clock

\* C21: a push makes at most max_retry attempts to each replica, and every push
\* that has started ends: the upload returns or goes on to its rollback.
C21_BoundedRetry ==
    /\ [](\A p \in Procs : proc[p].pc = "push" => proc[p].n < max_retry)
    /\ \A p \in Procs : (proc[p].pc = "push") ~> (proc[p].pc # "push")

C21_Witness ==
    \E p \in Procs :
        /\ proc[p].pc = "push"
        /\ proc[p].replica = cfg.replicas
        /\ proc[p].n = max_retry - 1

\* C22: every pass over the stream of an upload reads it from its start: the
\* digest is the digest of the whole content, what each POST to a replica carries
\* is the whole content, and the blob an upload has published holds it whole.
C22_ReadFromStart ==
    \A p \in Procs :
        proc[p].op = "upload"
        => /\ proc[p].md5hash = compute_md5(proc[p].in_file)
           /\ proc[p].posted \in {None, proc[p].in_file}
           /\ (proc[p].pc \in {"b_chmod", "push"} \/ proc[p].push # None)
              => LET f == IF Exists(blob[K(p)]) THEN blob[K(p)] ELSE blobTmp[K(p)]
                 IN  f.data = proc[p].in_file

C22_Witness ==
    /\ R.op = "upload" /\ R.pc = "push" /\ R.n = 2
    /\ R.pos = "part"
    /\ R.posted = R.in_file
    /\ blob[RKey].data = R.in_file

\* C23 (as stated): whenever a blob is published under a storage key, the record
\* of that key exists and holds a filename, a content type, a content-disposition
\* and the digest of the bytes of the blob.
C23_RecordBeforeBlob ==
    \A k \in Keys :
        Exists(blob[k])
        => /\ HasFilename(meta[k])
           /\ meta[k].ctype # None
           /\ meta[k].disp # NoDisp
           /\ meta[k].hash = compute_md5(blob[k].data)

\* C24 (as stated): an upload that finds the store as a rollback has left it (no
\* blob under the final name, the read-only blob under the temporary name) and
\* whose push does not fail returns success and publishes the blob.
C24_RecoveryAfterRollback ==
    (/\ UploadEnded
     /\ ~ForbiddenName(R.filename)
     /\ ~Exists(pre.blob[RKey])
     /\ Exists(pre.blobTmp[RKey]) /\ pre.blobTmp[RKey].ro
     /\ R.push # "raised")
    => /\ R.result = "ok"
       /\ blob[RKey].data = R.in_file
====
